---- MODULE Spec2Model ----
(***************************************************************************)
(* The retrieval-augmented generation pipeline of the legal assistant:     *)
(* OptimizedLegalRAG (ml_legal_system/optimized_legal_rag.py) with its     *)
(* query cache, LegalRAG (ml_legal_system/legal_rag.py), and the vector    *)
(* index they search (ml_legal_system/vector_db.py,                        *)
(* ml_legal_system/pinecone_vector_db.py).                                 *)
(*                                                                         *)
(* Texts are sequences of tokens; a token is a record [t, n] (a word, or   *)
(* the number n under t = "#").  Distances, relevance scores and the       *)
(* similarity threshold are in tenths: 10 stands for 1.0.                  *)
(***************************************************************************)
EXTENDS Integers, Sequences, FiniteSets, TLC

VARIABLES
    rag_class,             \* which orchestrator this process constructed
    vector_db,             \* class of the orchestrator's vector_db attribute
    collection,            \* the cases the index holds, each named by its id in
                           \* the first bulk load
    index,                 \* the index by id: index[n] is the case stored under
                           \* "case_n" ("doc_n" on PineconeVectorDB)
    llm,                   \* self.llm
    similarity_threshold,  \* self.similarity_threshold (OptimizedLegalRAG), tenths
    query_cache,           \* self.query_cache in insertion order: <<[key, value], ...>>
    last,                  \* what the most recent call did and returned
    watch,                 \* history: the (query, top_k) under observation, or <<>>
    obs,                   \* history: first and second answer_legal_query call for watch
    embedding_cache,       \* self.embedding_cache in insertion order: <<[key, value], ...>>
    threads,               \* concurrent callers of retrieve_relevant_cases: position and locals
    fmt                    \* what the most recent direct formatter calls took and returned

vars == <<rag_class, vector_db, collection, index, llm, similarity_threshold,
          query_cache, last, watch, obs, embedding_cache, threads, fmt>>

----------------------------------------------------------------------------
(* Tokens and texts *)

W(s) == [t |-> s, n |-> 0]
N(k) == [t |-> "#", n |-> k]

Whitespace == {" ", "\t", "\n"}

\* str.lower() on a token
Lower(tok) ==
    IF tok.t = "Contract" THEN W("contract") ELSE tok

\* Python's `word in text.lower()` at token granularity
ContainsWord(text, word) == \E i \in 1..Len(text) : Lower(text[i]) = W(word)

\* s[:k] for k >= 0
Take(s, k) == IF k >= Len(s) THEN s ELSE SubSeq(s, 1, k)

\* Python's s[:k] for any integer k: a negative k counts from the end
PySliceTo(s, k) ==
    IF k >= 0 THEN Take(s, k)
    ELSE IF Len(s) + k <= 0 THEN <<>> ELSE SubSeq(s, 1, Len(s) + k)

\* whether `sub` occurs in `text` as a contiguous run of tokens
Contains(text, sub) ==
    \E i \in 0..(Len(text) - Len(sub)) :
        \A j \in 1..Len(sub) : text[i + j] = sub[j]

----------------------------------------------------------------------------
(* Bounds and inputs *)

\* self.max_cache_size, scaled down from 100 so that evictions happen
max_cache_size == 2

default_top_k == 5

max_context_length == 2000

QEmpty == <<>>
QBlank == <<W(" ")>>
QContract == <<W("Contract"), W("breach")>>
QTenant == <<W("tenant"), W("eviction")>>

\* the calls made: <<query, top_k argument>>; the top_k argument is <<>>
\* when the caller omits it, <<k>> otherwise
Requests ==
    {<<QEmpty, <<1>>>>, <<QBlank, <<2>>>>,
     <<QContract, <<-1>>>>, <<QContract, <<0>>>>,
     <<QContract, <<1>>>>, <<QContract, <<2>>>>,
     <<QTenant, <<>>>>, <<QTenant, <<1>>>>}

\* what the index backend does on one search: answers, or is unreachable
IndexOutcomes == {"ok", "down"}

\* what the model provider does on one call
ModelOutcomes == {"text", "empty", "raise"}

----------------------------------------------------------------------------
(* The vector index: LegalVectorDatabase over a local ChromaDB collection *)

CaseIds == {0, 1, 2}

\* the stored document and metadata of case id (add_cases leaves court and
\* date empty; other loaders fill them)
CaseTitle(id) ==
    CASE id = 0 -> <<W("X vs Y (2020)")>>
      [] id = 1 -> <<W("A vs B")>>
      [] OTHER  -> <<W("State vs C")>>

CaseCourt(id) == IF id = 1 THEN <<W("Supreme Court")>> ELSE <<>>

CaseDate(id) == IF id = 1 THEN <<W("2019")>> ELSE <<>>

CaseDocument(id) ==
    CASE id = 0 -> <<W("contract"), W("breach"), W("damages")>>
      [] id = 1 -> <<W("tenant"), W("eviction")>>
      [] OTHER  -> <<>>

\* cosine distance, in tenths, between the embeddings of a query and of a
\* stored case: 0 = identical, 20 = opposite
Distance(q, id) ==
    CASE q = QContract -> (CASE id = 0 -> 0 [] id = 1 -> 6 [] OTHER -> 15)
      [] q = QTenant   -> (CASE id = 0 -> 12 [] id = 1 -> 4 [] OTHER -> 4)
      [] OTHER         -> (CASE id = 0 -> 10 [] id = 1 -> 13 [] OTHER -> 20)

\* the stored case nearest to q among ids (ties: the lower id)
Nearest(q, ids) ==
    CHOOSE c \in ids : \A d \in ids :
        \/ Distance(q, c) < Distance(q, d)
        \/ Distance(q, c) = Distance(q, d) /\ c <= d

\* one result row of collection.query, as search_similar_cases builds it
ChromaRow(q, id) ==
    [id |-> id,
     document |-> CaseDocument(id),
     metadata |-> [title |-> CaseTitle(id), court |-> CaseCourt(id),
                   date |-> CaseDate(id)],
     has_distance |-> TRUE,
     distance |-> Distance(q, id)]

\* collection.query(n_results = n): the n nearest stored cases, nearest first
RECURSIVE ChromaQuery(_, _, _)
ChromaQuery(q, ids, n) ==
    IF n <= 0 \/ ids = {} THEN <<>>
    ELSE LET c == Nearest(q, ids)
         IN  <<ChromaRow(q, c)>> \o ChromaQuery(q, ids \ {c}, n - 1)

\* LegalVectorDatabase.search_similar_cases: embeds the query and queries
\* the collection; an unreachable backend or a failing embedding step
\* raises, and so may a non-positive n_results.  [exc, rows]
search_similar_cases(q, n, ids, idx) ==
    IF idx = "down"
    THEN [exc |-> TRUE, rows |-> <<>>]
    ELSE [exc |-> FALSE, rows |-> ChromaQuery(q, ids, n)]

\* case.get('distance', default)
GetDistance(row, default) ==
    IF row.has_distance THEN row.distance ELSE default

----------------------------------------------------------------------------
(* OptimizedLegalRAG.retrieve_relevant_cases *)

\* top_k as the method sees it after `if top_k is None`
EffectiveTopK(tk) == IF tk = <<>> THEN default_top_k ELSE tk[1]

\* str(top_k)
IntStr(k) == IF k < 0 THEN <<W("-"), N(-k)>> ELSE <<N(k)>>

\* cache_key = f"{query}_{top_k}"
CacheKey(q, k) == q \o <<W("_")>> \o IntStr(k)

CacheKeys(cache) == {cache[i].key : i \in 1..Len(cache)}

CacheGet(cache, key) ==
    LET i == CHOOSE j \in 1..Len(cache) : cache[j].key = key
    IN  cache[i].value

\* relevance_score = 1 - distance
relevance_score(distance) == 10 - distance

\* the case_info record built for one row
case_info(row) ==
    [title |-> Take(row.metadata.title, 100),
     court |-> row.metadata.court,
     date |-> row.metadata.date,
     relevance_score |-> relevance_score(GetDistance(row, 10)),
     excerpt |-> Take(row.document, 400)]

\* filter_by_threshold with the threshold test left out
filter_keeps_all(rows, thr) == [i \in 1..Len(rows) |-> case_info(rows[i])]

\* the filter loop: rows whose relevance reaches the threshold, in order
RECURSIVE filter_by_threshold(_, _)
filter_by_threshold(rows, thr) ==
    IF rows = <<>> THEN <<>>
    ELSE LET c == case_info(Head(rows))
             rest == filter_by_threshold(Tail(rows), thr)
         IN  IF c.relevance_score >= thr THEN <<c>> \o rest ELSE rest

\* insert c into a list already sorted by descending relevance, after the
\* elements that are at least as relevant
RECURSIVE InsertDesc(_, _)
InsertDesc(sorted, c) ==
    IF sorted = <<>> THEN <<c>>
    ELSE IF Head(sorted).relevance_score >= c.relevance_score
         THEN <<Head(sorted)>> \o InsertDesc(Tail(sorted), c)
         ELSE <<c>> \o sorted

\* list.sort(key = relevance_score, reverse = True): a stable sort
RECURSIVE SortDesc(_)
SortDesc(cases) ==
    IF cases = <<>> THEN <<>>
    ELSE InsertDesc(SortDesc(SubSeq(cases, 1, Len(cases) - 1)),
                    cases[Len(cases)])

\* sort_and_limit without the [:top_k] slice
sort_without_limit(cases, k) == SortDesc(cases)

\* relevant_cases.sort(...); relevant_cases = relevant_cases[:top_k]
sort_and_limit(cases, k) == PySliceTo(SortDesc(cases), k)

\* cache_results without the eviction
cache_results_never_evicts(cache, key, value) ==
    Append(cache, [key |-> key, value |-> value])

\* cache_results with the newest entry evicted instead of the oldest
cache_results_evicts_newest(cache, key, value) ==
    LET kept == IF Len(cache) >= max_cache_size
                THEN SubSeq(cache, 1, Len(cache) - 1) ELSE cache
    IN  Append(kept, [key |-> key, value |-> value])

\* the evict-oldest-then-insert step on query_cache
cache_results(cache, key, value) ==
    LET kept == IF Len(cache) >= max_cache_size THEN Tail(cache) ELSE cache
    IN  Append(kept, [key |-> key, value |-> value])

\* on_retrieval_error with the empty list stored under the key
on_retrieval_error_caches_empty(cache, key) ==
    [exc |-> FALSE, cases |-> <<>>,
     cache |-> Append(IF Len(cache) >= max_cache_size THEN Tail(cache)
                      ELSE cache, [key |-> key, value |-> <<>>])]

\* the except branch: the error is printed and [] returned
on_retrieval_error(cache, key) ==
    [exc |-> FALSE, cases |-> <<>>, cache |-> cache]

\* retrieve_relevant_cases(query, top_k) on a given cache, threshold and
\* index.  [exc, cases, cache, searched, search_raised, hit]
retrieve_relevant_cases(q, k, cache, thr, ids, idx) ==
    LET key == CacheKey(q, k) IN
    IF key \in CacheKeys(cache)
    THEN [exc |-> FALSE, cases |-> CacheGet(cache, key), cache |-> cache,
          searched |-> 0, search_raised |-> FALSE, hit |-> TRUE]
    ELSE LET sr == search_similar_cases(q, k * 2, ids, idx) IN
         IF sr.exc
         THEN LET e == on_retrieval_error(cache, key)
              IN  [exc |-> e.exc, cases |-> e.cases, cache |-> e.cache,
                   searched |-> 1, search_raised |-> TRUE, hit |-> FALSE]
         ELSE LET relevant ==
                      sort_and_limit(filter_by_threshold(sr.rows, thr), k)
              IN  [exc |-> FALSE, cases |-> relevant,
                   cache |-> cache_results(cache, key, relevant),
                   searched |-> 1, search_raised |-> FALSE, hit |-> FALSE]

----------------------------------------------------------------------------
(* OptimizedLegalRAG: context formatter and response generator *)

ContextHeader == <<W("**Relevant Indian Legal Precedents:**")>>

NoPrecedentsContext ==
    <<W("No relevant legal precedents found in the database.")>>

\* the case_summary stanza of the i-th case
case_summary(i, c) ==
    <<W("**Case"), N(i)>> \o c.title
    \o <<W("- Relevance:"), N(c.relevance_score)>>
    \o (IF c.court # <<>> /\ c.court # <<W("Unknown Court")>>
        THEN <<W("- Court:")>> \o c.court ELSE <<>>)
    \o (IF c.date # <<>> /\ c.date # <<W("Unknown Date")>>
        THEN <<W("- Date:")>> \o c.date ELSE <<>>)
    \o <<W("- Key Points:")>>
    \o (IF c.excerpt # <<>> THEN Take(c.excerpt, 200)
        ELSE <<W("No excerpt available")>>)
    \o <<W("...")>>

\* TruncationMarker with the case that did not fit left uncounted
TruncationMarker_miscounts(omitted) ==
    <<W("*[Additional"), N(omitted - 1),
      W("cases available but truncated for brevity]*")>>

TruncationMarker(omitted) ==
    <<W("*[Additional"), N(omitted),
      W("cases available but truncated for brevity]*")>>

\* the for loop of format_optimized_context from case i on
RECURSIVE FormatFrom(_, _, _, _)
FormatFrom(cases, i, context, max_length) ==
    IF i > Len(cases) THEN context
    ELSE LET summary == case_summary(i, cases[i]) IN
         IF Len(context) + Len(summary) > max_length
         THEN context \o TruncationMarker(Len(cases) - i + 1)
         ELSE FormatFrom(cases, i + 1, context \o summary, max_length)

format_optimized_context(cases, max_length) ==
    IF cases = <<>> THEN NoPrecedentsContext
    ELSE FormatFrom(cases, 1, ContextHeader, max_length)

\* format_optimized_context_call with the list consumed by the call
format_optimized_context_consumes(cases, max_length) ==
    [text |-> format_optimized_context(cases, max_length),
     cases |-> IF cases = <<>> THEN cases ELSE Tail(cases)]

\* one call of format_optimized_context: the string it returns and the
\* list as the call leaves it (the method only reads the list)
format_optimized_context_call(cases, max_length) ==
    [text |-> format_optimized_context(cases, max_length), cases |-> cases]

Disclaimer ==
    <<W("**Disclaimer:** This information is for educational purposes only and does not constitute legal advice.")>>

ImportantNote ==
    <<W("**Important Note:** This analysis is based on available case precedents."),
      W("For specific legal advice tailored to your situation, please consult with a qualified attorney.")>>

\* the keyword buckets of generate_fallback_response
legal_concepts(q) ==
    (IF ContainsWord(q, "contract") \/ ContainsWord(q, "agreement")
     THEN <<W("Contract Law")>> ELSE <<>>)
    \o (IF ContainsWord(q, "property") \/ ContainsWord(q, "inheritance")
        THEN <<W("Property Law")>> ELSE <<>>)
    \o (IF ContainsWord(q, "divorce") \/ ContainsWord(q, "marriage")
        THEN <<W("Family Law")>> ELSE <<>>)
    \o (IF ContainsWord(q, "accident") \/ ContainsWord(q, "liability")
        THEN <<W("Tort Law")>> ELSE <<>>)
    \o (IF ContainsWord(q, "constitution") \/ ContainsWord(q, "fundamental")
        THEN <<W("Constitutional Law")>> ELSE <<>>)

generate_fallback_response(q, context) ==
    <<W("**Legal Analysis for:")>> \o q
    \o (IF legal_concepts(q) # <<>>
        THEN <<W("**Area of Law:**")>> \o legal_concepts(q) ELSE <<>>)
    \o <<W("**Based on Available Legal Precedents:**")>>
    \o context
    \o ImportantNote
    \o Disclaimer

\* the text a model call returns when it does not raise
ModelText(gen) == IF gen = "text" THEN <<W("model analysis")>> ELSE <<>>

\* generate_response_model without the try block around the model call
generate_response_model_propagates(q, context, gen) ==
    IF gen = "raise"
    THEN [exc |-> TRUE, text |-> <<>>, by |-> "none", provider |-> gen]
    ELSE [exc |-> FALSE, text |-> ModelText(gen), by |-> "model",
          provider |-> gen]

\* generate_response_gemini / generate_response_openai: the model call in
\* a try block, the fallback template in its except branch.
\* [exc, text, by, provider]: whether an exception leaves the method, the
\* text returned, what produced it, and what the provider did
generate_response_model(q, context, gen) ==
    IF gen = "raise"
    THEN [exc |-> FALSE, text |-> generate_fallback_response(q, context),
          by |-> "fallback", provider |-> gen]
    ELSE [exc |-> FALSE, text |-> ModelText(gen), by |-> "model",
          provider |-> gen]

\* generate_answer with no template for an unconfigured model
generate_answer_unconfigured_raises(q, context, the_llm, gen) ==
    IF the_llm \in {"openai", "gemini"}
    THEN generate_response_model(q, context, gen)
    ELSE [exc |-> TRUE, text |-> <<>>, by |-> "none", provider |-> "none"]

\* Step 3 of answer_legal_query: dispatch on self.llm
generate_answer(q, context, the_llm, gen) ==
    IF the_llm \in {"openai", "gemini"}
    THEN generate_response_model(q, context, gen)
    ELSE [exc |-> FALSE, text |-> generate_fallback_response(q, context),
          by |-> "fallback", provider |-> "none"]

GuidanceAnswer ==
    <<W("I couldn't find relevant legal precedents for your query. Please try rephrasing or provide more context.")>>

\* 'llm_used' of optimization_info
llm_used_field(the_llm, by) == the_llm

----------------------------------------------------------------------------
(* LegalRAG *)

\* the record LegalRAG.retrieve_relevant_cases builds for one row
LegalRAG_case_info(row) ==
    [title |-> row.metadata.title,
     court |-> row.metadata.court,
     date |-> row.metadata.date,
     relevance_score |-> 10 - GetDistance(row, 0),
     excerpt |-> Take(row.document, 500)]

\* LegalRAG.retrieve_relevant_cases: PineconeVectorDB has no
\* search_similar_cases method, so the call raises AttributeError there;
\* every exception ends in the except branch, which returns [].
\* [exc, cases, searched, search_raised]
LegalRAG_retrieve_relevant_cases(q, k, db, ids, idx) ==
    IF db = "PineconeVectorDB"
    THEN [exc |-> FALSE, cases |-> <<>>, searched |-> 0, search_raised |-> TRUE]
    ELSE LET sr == search_similar_cases(q, k, ids, idx) IN
         IF sr.exc
         THEN [exc |-> FALSE, cases |-> <<>>, searched |-> 1,
               search_raised |-> TRUE]
         ELSE [exc |-> FALSE,
               cases |-> [i \in 1..Len(sr.rows) |-> LegalRAG_case_info(sr.rows[i])],
               searched |-> 1, search_raised |-> FALSE]

LegalRAG_stanza(i, c) ==
    <<W("**Case"), N(i)>> \o c.title
    \o <<W("- Court:")>> \o c.court
    \o <<W("- Date:")>> \o c.date
    \o <<W("- Relevance:"), N(c.relevance_score)>>
    \o <<W("- Excerpt:")>> \o Take(c.excerpt, 300) \o <<W("...")>>

RECURSIVE LegalRAG_stanzas(_, _)
LegalRAG_stanzas(cases, i) ==
    IF i > Len(cases) THEN <<>>
    ELSE LegalRAG_stanza(i, cases[i]) \o LegalRAG_stanzas(cases, i + 1)

LegalRAG_format_context(cases) ==
    IF cases = <<>> THEN <<W("No relevant precedents found.")>>
    ELSE <<W("**Relevant Legal Precedents:**")>> \o LegalRAG_stanzas(cases, 1)

\* one call of LegalRAG.format_context: the string it returns and the list
\* as the call leaves it
LegalRAG_format_context_call(cases) ==
    [text |-> LegalRAG_format_context(cases), cases |-> cases]

\* Step 3 of LegalRAG.answer_legal_query with the two generate_response_*
\* methods.  [exc, text, by]
LegalRAG_generate(q, context, the_llm, gen) ==
    IF the_llm \in {"openai", "gemini"}
    THEN IF gen = "raise"
         THEN [exc |-> FALSE, text |-> <<W("Error generating response.")>>,
               by |-> "error", provider |-> gen]
         ELSE [exc |-> FALSE, text |-> ModelText(gen), by |-> "model",
               provider |-> gen]
    ELSE [exc |-> FALSE,
          text |-> <<W("LLM not initialized. Please check configuration.")>>,
          by |-> "none", provider |-> "none"]

----------------------------------------------------------------------------
(* What a call did and returned *)

NoCall ==
    [op |-> "none", query |-> <<>>, top_k |-> <<>>, raised |-> FALSE,
     answer |-> <<>>, sources |-> <<>>, context |-> <<>>,
     has_info |-> FALSE, llm_used |-> "", retrieved |-> <<>>,
     searched |-> 0, search_raised |-> FALSE, cache_hit |-> FALSE,
     generator |-> "none", gen_calls |-> 0, provider |-> "none",
     calls |-> <<>>, attempts |-> 0, evicted |-> FALSE,
     response_sources |-> <<>>, type |-> "none", added |-> <<>>,
     before |-> 0, returned |-> 0]

\* an exception reached the caller
Raised(op, q, tk, r, provider) ==
    [NoCall EXCEPT !.op = op, !.query = q, !.top_k = tk, !.raised = TRUE,
                   !.searched = r.searched, !.search_raised = r.search_raised,
                   !.provider = provider]

\* the dictionary returned on the `if not relevant_cases` branch
GuidanceResult(op, q, tk, r, hit) ==
    [NoCall EXCEPT !.op = op, !.query = q, !.top_k = tk,
                   !.answer = GuidanceAnswer,
                   !.searched = r.searched, !.search_raised = r.search_raised,
                   !.cache_hit = hit]

\* the dictionary returned after generation
FullResult(op, q, tk, r, hit, context, g, info, used) ==
    [NoCall EXCEPT !.op = op, !.query = q, !.top_k = tk,
                   !.answer = g.text, !.sources = r.cases,
                   !.context = context, !.has_info = info,
                   !.llm_used = used, !.retrieved = r.cases,
                   !.searched = r.searched, !.search_raised = r.search_raised,
                   !.cache_hit = hit, !.generator = g.by, !.gen_calls = 1,
                   !.provider = g.provider]

\* AnswerResult without the `if not relevant_cases` branch
AnswerResult_generates_on_empty(q, tk, r, the_llm, gen) ==
    IF r.exc THEN Raised("answer_legal_query", q, tk, r, "none")
    ELSE LET context == format_optimized_context(r.cases, max_context_length)
             g == generate_answer(q, context, the_llm, gen)
         IN  FullResult("answer_legal_query", q, tk, r, r.hit, context,
                        g, TRUE, llm_used_field(the_llm, g.by))

\* OptimizedLegalRAG.answer_legal_query after Step 1 returned r
AnswerResult(q, tk, r, the_llm, gen) ==
    IF r.exc THEN Raised("answer_legal_query", q, tk, r, "none")
    ELSE IF r.cases = <<>>
    THEN GuidanceResult("answer_legal_query", q, tk, r, r.hit)
    ELSE LET context == format_optimized_context(r.cases, max_context_length)
             g == generate_answer(q, context, the_llm, gen)
         IN  IF g.exc THEN Raised("answer_legal_query", q, tk, r, g.provider)
             ELSE FullResult("answer_legal_query", q, tk, r, r.hit, context,
                             g, TRUE, llm_used_field(the_llm, g.by))

\* LegalRAG.answer_legal_query after Step 1 returned r
LegalRAG_AnswerResult(q, tk, r, the_llm, gen) ==
    IF r.exc THEN Raised("LegalRAG.answer_legal_query", q, tk, r, "none")
    ELSE IF r.cases = <<>>
    THEN GuidanceResult("LegalRAG.answer_legal_query", q, tk, r, FALSE)
    ELSE LET context == LegalRAG_format_context(r.cases)
             g == LegalRAG_generate(q, context, the_llm, gen)
         IN  IF g.exc
             THEN Raised("LegalRAG.answer_legal_query", q, tk, r, g.provider)
             ELSE FullResult("LegalRAG.answer_legal_query", q, tk, r, FALSE,
                             context, g, FALSE, "")

----------------------------------------------------------------------------
(* The chat endpoint (app_with_db.py) over LegalEngine (legal_engine_ml.py) *)

max_retries == 3

\* str.strip()
RECURSIVE Strip(_)
Strip(q) ==
    IF q = <<>> THEN q
    ELSE IF Head(q).t \in Whitespace THEN Strip(Tail(q))
    ELSE IF q[Len(q)].t \in Whitespace THEN Strip(SubSeq(q, 1, Len(q) - 1))
    ELSE q

\* get_basic_fallback_response(query) of app_with_db.py
get_basic_fallback_response(q) ==
    IF \E w \in {"contract", "agreement", "breach"} : ContainsWord(q, w)
    THEN <<W("**Contract Law Information:**"),
           W("*This is general information only, not legal advice.*")>>
    ELSE IF \E w \in {"divorce", "marriage", "custody"} : ContainsWord(q, w)
    THEN <<W("**Family Law Information:**"),
           W("*This is general information only, not legal advice.*")>>
    ELSE <<W("**Legal Information Service:**"),
           W("*We apologize for the inconvenience and appreciate your patience.*")>>

\* LegalEngine._get_basic_response(query): [response, sources, type]
get_basic_response(q) ==
    [response |->
        IF ContainsWord(q, "contract")
        THEN <<W("**Contract Law in India:**")>>
        ELSE IF ContainsWord(q, "property") \/ ContainsWord(q, "real estate")
        THEN <<W("**Property Law in India:**")>>
        ELSE IF ContainsWord(q, "divorce") \/ ContainsWord(q, "marriage")
        THEN <<W("**Family Law in India:**")>>
        ELSE IF ContainsWord(q, "criminal")
        THEN <<W("**Criminal Law in India:**")>>
        ELSE <<W("**General Legal Information:**")>>,
     sources |-> <<>>,
     type |-> "basic"]

\* one entry of 'sources' as _get_rag_response formats it
response_source(c) ==
    [title |-> c.title, court |-> c.court, date |-> c.date, url |-> <<>>,
     relevance |-> <<N(c.relevance_score * 10), W("%")>>]

\* _get_rag_response with the exception of a failed search passed on to
\* the caller
get_rag_response_propagates(q, db, ids, the_llm, idx, gen) ==
    LET r == LegalRAG_retrieve_relevant_cases(q, 5, db, ids, idx)
        a == LegalRAG_AnswerResult(q, <<5>>, r, the_llm, gen)
    IN  [exc |-> r.search_raised,
         result |-> [response |-> a.answer,
                     sources |-> [i \in 1..Len(a.sources) |->
                                     response_source(a.sources[i])],
                     type |-> "rag"],
         call |-> a]

\* LegalEngine._get_rag_response(query): self.rag.answer_legal_query(query,
\* top_k=5) in a try block, the basic response in its except branch.
\* [exc, result, call]: call is what answer_legal_query did
get_rag_response(q, db, ids, the_llm, idx, gen) ==
    LET r == LegalRAG_retrieve_relevant_cases(q, 5, db, ids, idx)
        a == LegalRAG_AnswerResult(q, <<5>>, r, the_llm, gen)
    IN  [exc |-> FALSE,
         result |-> IF a.raised THEN get_basic_response(q)
                    ELSE [response |-> a.answer,
                          sources |-> [i \in 1..Len(a.sources) |->
                                          response_source(a.sources[i])],
                          type |-> "rag"],
         call |-> a]

\* LegalEngine.get_legal_response(query, user_context)
get_legal_response(q, ml_available, db, ids, the_llm, idx, gen) ==
    IF ml_available
    THEN get_rag_response(q, db, ids, the_llm, idx, gen)
    ELSE [exc |-> FALSE, result |-> get_basic_response(q), call |-> NoCall]

\* the while loop of chat from attempt retry_count + 1 on; searched and
\* gen_calls count the index searches and generator calls of the attempts
\* made so far.  [result, attempts, searched, gen_calls, call]
RECURSIVE chat_loop(_, _, _, _, _, _, _, _, _, _)
chat_loop(retry_count, searched, gen_calls, q, ml_available, db, ids, the_llm, idx, gen) ==
    LET a == get_legal_response(q, ml_available, db, ids, the_llm, idx, gen)
        s == searched + a.call.searched
        g == gen_calls + a.call.gen_calls
    IN  IF ~a.exc
        THEN [result |-> a.result, attempts |-> retry_count + 1,
              searched |-> s, gen_calls |-> g, call |-> a.call]
        ELSE IF retry_count + 1 >= max_retries
        THEN [result |-> [response |-> get_basic_fallback_response(q),
                          sources |-> <<>>, type |-> "fallback"],
              attempts |-> retry_count + 1,
              searched |-> s, gen_calls |-> g, call |-> a.call]
        ELSE chat_loop(retry_count + 1, s, g, q, ml_available, db, ids,
                       the_llm, idx, gen)

\* what chat did and returned for the message q
ChatResult(q, ml_available, db, ids, the_llm, idx, gen) ==
    LET user_message == Strip(q) IN
    IF user_message = <<>>
    THEN [NoCall EXCEPT !.op = "chat", !.query = q, !.raised = TRUE,
                        !.answer = <<W("Message is required")>>,
                        !.type = "400"]
    ELSE LET l == chat_loop(0, 0, 0, user_message, ml_available, db, ids,
                            the_llm, idx, gen)
         IN  [l.call EXCEPT !.op = "chat", !.query = q, !.top_k = <<5>>,
                            !.raised = FALSE,
                            !.answer = l.result.response,
                            !.response_sources = l.result.sources,
                            !.type = l.result.type,
                            !.attempts = l.attempts,
                            !.searched = l.searched,
                            !.gen_calls = l.gen_calls]

----------------------------------------------------------------------------
(* History of the watched (query, top_k) *)

NoObs ==
    [phase |-> 0, first_sources |-> <<>>, first_raised |-> FALSE,
     inserted |-> 0, searches |-> 0, second_sources |-> <<>>]

\* phase 0: no call for w yet; 1: after its first call; 2: right after its
\* second call; 3: the observation is over
ObsUpdate(o, w, q, k, r, res, cache) ==
    IF w = <<>> \/ o.phase = 3 THEN o
    ELSE IF o.phase = 2 THEN [NoObs EXCEPT !.phase = 3]
    ELSE IF <<q, k>> = w
    THEN IF o.phase = 0
         THEN [NoObs EXCEPT !.phase = 1, !.first_sources = res.sources,
                            !.first_raised = r.search_raised,
                            !.searches = r.searched]
         ELSE [o EXCEPT !.phase = 2, !.second_sources = res.sources,
                        !.searches = o.searches + r.searched]
    ELSE IF o.phase = 1 /\ r.cache # cache /\ o.inserted < max_cache_size
         THEN [o EXCEPT !.inserted = o.inserted + 1]
         ELSE o

----------------------------------------------------------------------------
(* OptimizedLegalRAG.optimize_similarity_threshold *)

\* the thresholds tried, in tenths
Thresholds == <<1, 2, 3, 4, 5>>

target_sources == 5

\* the test_queries arguments
TestQueryLists == {<<QTenant>>, <<QContract, QTenant>>}

\* score = (valid_queries / len(tests)) * min(avg_sources / target_sources, 1)
\* with avg_sources = total_sources / valid_queries, multiplied by
\* len(tests) * target_sources, which is the same in every round
score_of(total_sources, valid_queries) ==
    IF total_sources < valid_queries * target_sources
    THEN total_sources ELSE valid_queries * target_sources

\* the inner loop `for query in test_queries[:3]` from the i-th query on.
\* st = [cache, total, valid, calls]; calls logs every
\* retrieve_relevant_cases call: the threshold in force and what it returned
RECURSIVE test_round(_, _, _, _, _, _)
test_round(tests, i, st, thr, ids, idx) ==
    IF i > Len(tests) THEN st
    ELSE LET r == retrieve_relevant_cases(tests[i], target_sources, st.cache,
                                          thr, ids, idx)
         IN  test_round(tests, i + 1,
                 [cache |-> r.cache,
                  total |-> st.total + Len(r.cases),
                  valid |-> st.valid + (IF r.cases # <<>> THEN 1 ELSE 0),
                  calls |-> Append(st.calls,
                               [thr |-> thr, cases |-> r.cases,
                                query |-> tests[i],
                                raised |-> r.search_raised])],
                 thr, ids, idx)

\* the outer loop `for threshold in thresholds` from the j-th threshold on.
\* st = [cache, best_threshold, best_score, calls]
RECURSIVE threshold_loop(_, _, _, _, _)
threshold_loop(j, st, tests, ids, idx) ==
    IF j > Len(Thresholds) THEN st
    ELSE LET thr == Thresholds[j]
             rd == test_round(Take(tests, 3), 1,
                       [cache |-> st.cache, total |-> 0, valid |-> 0,
                        calls |-> st.calls], thr, ids, idx)
             score == score_of(rd.total, rd.valid)
             better == rd.valid > 0 /\ score > st.best_score
         IN  threshold_loop(j + 1,
                 [cache |-> rd.cache,
                  best_threshold |-> IF better THEN thr ELSE st.best_threshold,
                  best_score |-> IF better THEN score ELSE st.best_score,
                  calls |-> rd.calls],
                 tests, ids, idx)

\* the whole method: [cache, best_threshold, best_score, calls]
optimize_similarity_threshold_result(tests, cache, thr, ids, idx) ==
    threshold_loop(1, [cache |-> cache, best_threshold |-> thr,
                       best_score |-> 0, calls |-> <<>>], tests, ids, idx)

----------------------------------------------------------------------------
(* OptimizedLegalRAG._cache_embedding *)

\* the texts whose embeddings are cached
EmbeddingTexts == {QBlank, QContract, QTenant}

\* hash(text)
text_hash(text) ==
    CASE text = QEmpty    -> 0
      [] text = QBlank    -> 17
      [] text = QContract -> 42
      [] OTHER            -> 99

\* the embedding of a text, as an opaque value
Embedding(text) == <<text_hash(text) % 7>>

\* d[key] = value on a dict kept in insertion order: an existing key keeps
\* its place
DictSet(d, key, value) ==
    IF \E i \in 1..Len(d) : d[i].key = key
    THEN [i \in 1..Len(d) |->
             IF d[i].key = key THEN [key |-> key, value |-> value] ELSE d[i]]
    ELSE Append(d, [key |-> key, value |-> value])

\* _cache_embedding(text, embedding) on a given embedding_cache
cache_embedding_result(cache, text, embedding) ==
    LET kept == IF Len(cache) >= max_cache_size THEN Tail(cache) ELSE cache
    IN  DictSet(kept, text_hash(text), embedding)

----------------------------------------------------------------------------
(* OptimizedLegalRAG.__init__ and batch_test_performance *)

\* what a constructor call finds: its use_openai argument, whether the
\* provider packages import, whether GOOGLE_API_KEY is set, whether
\* configuring the Gemini client raises
Environments ==
    [use_openai : BOOLEAN, openai_importable : BOOLEAN,
     genai_importable : BOOLEAN, api_key_set : BOOLEAN,
     configure_raises : BOOLEAN]

\* init_gemini with self.llm left at None by the except branch
init_gemini_leaves_none(env) ==
    IF ~env.genai_importable THEN "none"
    ELSE IF ~env.api_key_set THEN "fallback"
    ELSE IF env.configure_raises THEN "none"
    ELSE "gemini"

\* _init_gemini: the value self.llm is left with
init_gemini(env) ==
    IF ~env.genai_importable THEN "fallback"
    ELSE IF ~env.api_key_set THEN "fallback"
    ELSE IF env.configure_raises THEN "fallback"
    ELSE "gemini"

\* _init_openai: the value self.llm is left with
init_openai(env) ==
    IF env.openai_importable THEN "openai" ELSE init_gemini(env)

\* self.llm after OptimizedLegalRAG.__init__(use_openai)
OptimizedLegalRAG_init(env) ==
    IF env.use_openai THEN init_openai(env) ELSE init_gemini(env)

\* the loop of batch_test_performance from the i-th query on.
\* st = [cache, calls, gen_calls]
RECURSIVE batch_from(_, _, _, _, _, _, _, _)
batch_from(tests, i, st, thr, ids, the_llm, idx, gen) ==
    IF i > Len(tests) THEN st
    ELSE LET r == retrieve_relevant_cases(tests[i], default_top_k, st.cache,
                                          thr, ids, idx)
             res == AnswerResult(tests[i], <<>>, r, the_llm, gen)
         IN  batch_from(tests, i + 1,
                 [cache |-> r.cache,
                  calls |-> Append(st.calls,
                               [thr |-> thr, cases |-> r.cases,
                                query |-> tests[i],
                                raised |-> r.search_raised]),
                  gen_calls |-> st.gen_calls + res.gen_calls],
                 thr, ids, the_llm, idx, gen)

----------------------------------------------------------------------------
(* Ingestion: LegalVectorDatabase.add_cases and                             *)
(* PineconeVectorDB.add_documents                                           *)

\* the case lists handed to the loaders
CaseLists == {<<1>>, <<0, 2>>}

\* the batch_size arguments
BatchSizes == {1, 100}

\* what collection.add does with an id the collection already holds:
\* recent ChromaDB releases skip the record, earlier ones raise
DuplicateOutcomes == {"ignore", "raise"}

\* the cases an index holds
Stored(ix) == {ix[n] : n \in DOMAIN ix}

\* the ids of the batch cases[i:i+batch_size]: n stands for f"case_{i+j}"
\* with n = i + j
batch_ids(cases, i, batch_size) ==
    LET rest == Len(cases) - i
        size == IF rest < batch_size THEN rest ELSE batch_size
    IN  {i + j : j \in 0..(size - 1)}

\* self.collection.add(documents, embeddings, metadatas, ids) on ChromaDB.
\* [exc, index]
collection_add(ix, ids, cases, dup) ==
    IF dup = "raise" /\ ids \cap DOMAIN ix # {}
    THEN [exc |-> TRUE, index |-> ix]
    ELSE [exc |-> FALSE,
          index |-> [n \in DOMAIN ix \cup ids |->
                        IF n \in DOMAIN ix THEN ix[n] ELSE cases[n + 1]]]

\* index.upsert(vectors): a vector under an id the index holds replaces it
index_upsert(ix, ids, cases) ==
    [n \in DOMAIN ix \cup ids |-> IF n \in ids THEN cases[n + 1] ELSE ix[n]]

\* the loop `for i in range(0, len(cases), batch_size)` of add_cases from
\* the batch starting at i.  [exc, index]
RECURSIVE add_cases_from(_, _, _, _, _, _)
add_cases_from(ix, cases, i, batch_size, use_cloud, dup) ==
    IF i >= Len(cases) THEN [exc |-> FALSE, index |-> ix]
    ELSE LET ids == batch_ids(cases, i, batch_size)
             r == IF use_cloud
                  THEN [exc |-> FALSE, index |-> index_upsert(ix, ids, cases)]
                  ELSE collection_add(ix, ids, cases, dup)
         IN  IF r.exc THEN r
             ELSE add_cases_from(r.index, cases, i + batch_size, batch_size,
                                 use_cloud, dup)

\* PineconeVectorDB.add_documents(texts) with ids omitted: the ids are
\* doc_0 .. doc_{len(texts) - 1}; an exception ends in the except branch,
\* which returns False.  [ok, index]
add_documents_result(ix, texts, idx) ==
    IF idx = "down" THEN [ok |-> FALSE, index |-> ix]
    ELSE [ok |-> TRUE,
          index |-> index_upsert(ix, 0..(Len(texts) - 1), texts)]

\* query_cache_after_add_cases with the cache cleared by the ingestion
add_cases_invalidates_cache(cache) == <<>>

\* the orchestrator's query_cache after an add_cases call on its
\* vector_db: the loader holds no reference to the orchestrator
query_cache_after_add_cases(cache) == cache

----------------------------------------------------------------------------
(* Initial values of the state outside the request path *)

\* the concurrent callers
Threads == {1, 2}

IdleThread ==
    [pc |-> "idle", query |-> <<>>, top_k |-> 0, key |-> <<>>,
     cases |-> <<>>, oldest |-> <<>>, returned |-> <<>>]

NoFmt ==
    [op |-> "none", cases |-> <<>>, max_length |-> 0, first |-> <<>>,
     cases_after |-> <<>>, second |-> <<>>]

----------------------------------------------------------------------------
(* The state machine *)

\* the collections a process may start on
InitCollections == {{}, CaseIds}

\* the state after OptimizedLegalRAG() or LegalRAG(vector_db = ...)
InitRag ==
    /\ collection \in InitCollections
    /\ index = [n \in collection |-> n]
    /\ query_cache = <<>>
    /\ similarity_threshold = 3
    /\ last = NoCall
    /\ obs = NoObs
    /\ embedding_cache = <<>>
    /\ threads = [t \in Threads |-> IdleThread]
    /\ fmt = NoFmt
    /\ \/ /\ rag_class = "OptimizedLegalRAG"
          /\ vector_db = "LegalVectorDatabase"
          /\ llm \in {"openai", "gemini", "fallback"}
       \/ /\ rag_class = "LegalRAG"
          /\ vector_db \in {"LegalVectorDatabase", "PineconeVectorDB"}
          /\ llm \in {"openai", "gemini", "none"}

Init == InitRag /\ watch = <<>>

\* optimize_rag_system: on a fresh OptimizedLegalRAG, similarity_threshold
\* is set to the recommended value, a percentile of the similarities
\* 1 - distance the index reports for the analysis queries
optimize_rag_system(t) ==
    /\ rag_class = "OptimizedLegalRAG"
    /\ last.op = "none"
    /\ query_cache = <<>>
    /\ collection # {}
    /\ t \in {10 - Distance(QContract, c) : c \in collection}
    /\ similarity_threshold' = t
    /\ UNCHANGED <<rag_class, vector_db, collection, index, llm, query_cache, last,
                   watch, obs, embedding_cache, threads, fmt>>

\* OptimizedLegalRAG.answer_legal_query(query, top_k)
answer_legal_query(q, tk, idx, gen) ==
    /\ rag_class = "OptimizedLegalRAG"
    /\ LET k == EffectiveTopK(tk)
           r == retrieve_relevant_cases(q, k, query_cache,
                                        similarity_threshold, collection, idx)
           res == AnswerResult(q, tk, r, llm, gen)
       IN  /\ query_cache' = r.cache
           /\ last' = [res EXCEPT !.calls = <<[thr |-> similarity_threshold,
                                               cases |-> r.cases,
                                               query |-> q,
                                               raised |-> r.search_raised]>>,
                                   !.evicted = (r.cache # query_cache
                                       /\ query_cache # <<>>
                                       /\ r.cache[1] # query_cache[1])]
           /\ obs' = ObsUpdate(obs, watch, q, k, r, res, query_cache)
    /\ UNCHANGED <<rag_class, vector_db, collection, index, llm,
                   similarity_threshold, watch, embedding_cache, threads, fmt>>

\* OptimizedLegalRAG.optimize_similarity_threshold(test_queries)
optimize_similarity_threshold(tests, idx) ==
    /\ rag_class = "OptimizedLegalRAG"
    /\ LET res == optimize_similarity_threshold_result(tests, query_cache,
                       similarity_threshold, collection, idx)
       IN  /\ query_cache' = res.cache
           /\ similarity_threshold' = res.best_threshold
           /\ last' = [NoCall EXCEPT !.op = "optimize_similarity_threshold",
                                     !.calls = res.calls,
                                     !.before = similarity_threshold,
                                     !.returned = res.best_threshold]
    /\ UNCHANGED <<rag_class, vector_db, collection, index, llm, watch, obs,
                   embedding_cache, threads, fmt>>

\* LegalRAG.answer_legal_query(query, top_k)
LegalRAG_answer_legal_query(q, tk, idx, gen) ==
    /\ rag_class = "LegalRAG"
    /\ LET k == EffectiveTopK(tk)
           r == LegalRAG_retrieve_relevant_cases(q, k, vector_db, collection, idx)
       IN  last' = LegalRAG_AnswerResult(q, tk, r, llm, gen)
    /\ UNCHANGED <<rag_class, vector_db, collection, index, llm,
                   similarity_threshold, query_cache, watch, obs,
                   embedding_cache, threads, fmt>>

\* chat: POST /api/chat with the message q; the engine holds the LegalRAG
\* of this process.  The stored message history is outside the model
chat(q, idx, gen) ==
    /\ rag_class = "LegalRAG"
    /\ last' = ChatResult(q, TRUE, vector_db, collection, llm, idx, gen)
    /\ UNCHANGED <<rag_class, vector_db, collection, index, llm,
                   similarity_threshold, query_cache, watch, obs,
                   embedding_cache, threads, fmt>>

Next ==
    \/ \E t \in -10..10 : optimize_rag_system(t)
    \/ \E rq \in Requests, idx \in IndexOutcomes, gen \in ModelOutcomes :
          chat(rq[1], idx, gen)
    \/ \E rq \in Requests, idx \in IndexOutcomes, gen \in ModelOutcomes :
          answer_legal_query(rq[1], rq[2], idx, gen)
    \/ \E rq \in Requests, idx \in IndexOutcomes, gen \in ModelOutcomes :
          LegalRAG_answer_legal_query(rq[1], rq[2], idx, gen)

Spec == Init /\ [][Next]_vars

\* one OptimizedLegalRAG with one (query, top_k) under observation
InitWatch ==
    /\ InitRag
    /\ rag_class = "OptimizedLegalRAG"
    /\ collection = CaseIds
    /\ llm = "fallback"
    /\ watch \in {<<rq[1], EffectiveTopK(rq[2])>> : rq \in Requests}

NextWatch ==
    \E rq \in Requests, idx \in IndexOutcomes :
        answer_legal_query(rq[1], rq[2], idx, "text")

SpecWatch == InitWatch /\ [][NextWatch]_vars

\* one OptimizedLegalRAG whose threshold is tuned between requests
InitTune ==
    /\ InitRag
    /\ rag_class = "OptimizedLegalRAG"
    /\ collection = CaseIds
    /\ llm = "fallback"
    /\ watch = <<>>

NextTune ==
    \/ \E tests \in TestQueryLists, idx \in IndexOutcomes :
          optimize_similarity_threshold(tests, idx)
    \/ \E rq \in Requests, idx \in IndexOutcomes :
          answer_legal_query(rq[1], rq[2], idx, "text")

SpecTune == InitTune /\ [][NextTune]_vars

\* OptimizedLegalRAG._cache_embedding(text, embedding)
cache_embedding(text, embedding) ==
    /\ rag_class = "OptimizedLegalRAG"
    /\ embedding_cache' = cache_embedding_result(embedding_cache, text, embedding)
    /\ UNCHANGED <<rag_class, vector_db, collection, index, llm, similarity_threshold,
                   query_cache, last, watch, obs, threads, fmt>>

\* one OptimizedLegalRAG, both of its caches in use
NextCaches ==
    \/ \E rq \in Requests, idx \in IndexOutcomes :
          answer_legal_query(rq[1], rq[2], idx, "text")
    \/ \E text \in EmbeddingTexts : cache_embedding(text, Embedding(text))

SpecCaches == InitTune /\ [][NextCaches]_vars

\* LegalVectorDatabase.add_cases(cases, batch_size) on the local index
add_cases(cases, batch_size, dup) ==
    /\ vector_db = "LegalVectorDatabase"
    /\ LET res == add_cases_from(index, cases, 0, batch_size, FALSE, dup)
       IN  /\ index' = res.index
           /\ collection' = Stored(res.index)
           /\ last' = [NoCall EXCEPT !.op = "add_cases", !.raised = res.exc,
                                     !.added = cases]
    /\ query_cache' = query_cache_after_add_cases(query_cache)
    /\ UNCHANGED <<rag_class, vector_db, llm, similarity_threshold, watch,
                   obs, embedding_cache, threads, fmt>>

\* PineconeVectorDB.add_documents(texts)
add_documents(texts, idx) ==
    /\ vector_db = "PineconeVectorDB"
    /\ LET res == add_documents_result(index, texts, idx)
       IN  /\ index' = res.index
           /\ collection' = Stored(res.index)
           /\ last' = [NoCall EXCEPT !.op = "add_documents",
                                     !.type = IF res.ok THEN "True" ELSE "False",
                                     !.added = texts]
    /\ UNCHANGED <<rag_class, vector_db, llm, similarity_threshold,
                   query_cache, watch, obs, embedding_cache, threads, fmt>>

\* the requests made while cases are being loaded
IngestRequests ==
    {<<QContract, <<1>>>>, <<QContract, <<2>>>>,
     <<QTenant, <<>>>>, <<QTenant, <<1>>>>}

\* a process that starts on an empty index and loads it between requests
InitIngest ==
    /\ InitRag
    /\ collection = {}
    /\ llm \in {"fallback", "none"}
    /\ watch = <<>>

NextIngest ==
    \/ \E cases \in CaseLists, batch_size \in BatchSizes,
          dup \in DuplicateOutcomes : add_cases(cases, batch_size, dup)
    \/ \E texts \in CaseLists, idx \in IndexOutcomes : add_documents(texts, idx)
    \/ \E rq \in IngestRequests, idx \in IndexOutcomes :
          answer_legal_query(rq[1], rq[2], idx, "text")
    \/ \E tests \in TestQueryLists, idx \in IndexOutcomes :
          optimize_similarity_threshold(tests, idx)

SpecIngest == InitIngest /\ [][NextIngest]_vars

----------------------------------------------------------------------------
(* The context formatters called directly *)

\* largest max_length passed to format_optimized_context, in tokens
max_length_bound == 40

\* the ranked case lists passed to the formatters: what retrieval returns
\* for some query, threshold and top_k
RankedLists ==
    {sort_and_limit(filter_by_threshold(ChromaQuery(q, CaseIds, 6), thr), k) :
        q \in {QContract, QTenant}, thr \in {-20, 3}, k \in 0..3}

\* format_optimized_context(cases, max_length) called twice in a row
format_optimized_context_twice(cases, max_length) ==
    /\ rag_class = "OptimizedLegalRAG"
    /\ LET a == format_optimized_context_call(cases, max_length)
           b == format_optimized_context_call(a.cases, max_length)
       IN  fmt' = [op |-> "format_optimized_context", cases |-> cases,
                   max_length |-> max_length, first |-> a.text,
                   cases_after |-> b.cases, second |-> b.text]
    /\ UNCHANGED <<rag_class, vector_db, collection, index, llm, similarity_threshold,
                   query_cache, last, watch, obs, embedding_cache, threads>>

\* LegalRAG.format_context(cases) called twice in a row
LegalRAG_format_context_twice(cases) ==
    /\ rag_class = "LegalRAG"
    /\ LET a == LegalRAG_format_context_call(cases)
           b == LegalRAG_format_context_call(a.cases)
       IN  fmt' = [op |-> "LegalRAG.format_context", cases |-> cases,
                   max_length |-> 0, first |-> a.text,
                   cases_after |-> b.cases, second |-> b.text]
    /\ UNCHANGED <<rag_class, vector_db, collection, index, llm, similarity_threshold,
                   query_cache, last, watch, obs, embedding_cache, threads>>

NextFormat ==
    \/ \E cases \in RankedLists, max_length \in 0..max_length_bound :
          format_optimized_context_twice(cases, max_length)
    \/ \E cases \in RankedLists : LegalRAG_format_context_twice(cases)

SpecFormat == Init /\ [][NextFormat]_vars

\* what a search of the index, filtered with the threshold thr, returns for
\* the query q and top_k = target_sources
FreshCases(q, thr) ==
    sort_and_limit(
        filter_by_threshold(ChromaQuery(q, collection, target_sources * 2), thr),
        target_sources)

\* OptimizedLegalRAG.batch_test_performance(test_queries)
batch_test_performance(tests, idx, gen) ==
    /\ rag_class = "OptimizedLegalRAG"
    /\ LET res == batch_from(tests, 1,
                      [cache |-> query_cache, calls |-> <<>>, gen_calls |-> 0],
                      similarity_threshold, collection, llm, idx, gen)
       IN  /\ query_cache' = res.cache
           /\ last' = [NoCall EXCEPT !.op = "batch_test_performance",
                                     !.calls = res.calls,
                                     !.gen_calls = res.gen_calls,
                                     !.provider = IF res.gen_calls > 0
                                                     /\ llm \in {"openai", "gemini"}
                                                  THEN gen ELSE "none"]
    /\ UNCHANGED <<rag_class, vector_db, collection, index, llm,
                   similarity_threshold, watch, obs, embedding_cache,
                   threads, fmt>>

\* the state after OptimizedLegalRAG(use_openai) in some environment, on a
\* loaded index
InitConstructed ==
    /\ rag_class = "OptimizedLegalRAG"
    /\ vector_db = "LegalVectorDatabase"
    /\ collection = CaseIds
    /\ index = [n \in collection |-> n]
    /\ llm \in {OptimizedLegalRAG_init(env) : env \in Environments}
    /\ similarity_threshold = 3
    /\ query_cache = <<>>
    /\ embedding_cache = <<>>
    /\ last = NoCall
    /\ watch = <<>>
    /\ obs = NoObs
    /\ threads = [t \in Threads |-> IdleThread]
    /\ fmt = NoFmt

\* the requests made on the constructed orchestrator
ConstructedRequests == {<<QContract, <<1>>>>, <<QTenant, <<>>>>}

\* every public method of OptimizedLegalRAG, the model raising included
NextConstructed ==
    \/ \E rq \in ConstructedRequests, idx \in IndexOutcomes,
          gen \in {"text", "raise"} :
          answer_legal_query(rq[1], rq[2], idx, gen)
    \/ \E tests \in TestQueryLists, idx \in IndexOutcomes,
          gen \in {"text", "raise"} : batch_test_performance(tests, idx, gen)
    \/ \E tests \in TestQueryLists, idx \in IndexOutcomes :
          optimize_similarity_threshold(tests, idx)
    \/ \E q \in {QContract, QTenant} :
          format_optimized_context_twice(FreshCases(q, similarity_threshold),
                                         max_context_length)

SpecConstructed == InitConstructed /\ [][NextConstructed]_vars

----------------------------------------------------------------------------
(* Concurrent callers of OptimizedLegalRAG.retrieve_relevant_cases: one     *)
(* action per statement that reads or writes self.query_cache.  Every      *)
(* exception raised inside the try block ends in the except branch, which  *)
(* returns [].                                                             *)

\* the (query, top_k) pairs the concurrent callers ask for
ThreadRequests == {<<QContract, 1>>, <<QContract, 2>>, <<QTenant, 1>>}

\* the statements between the length test and the insertion
InCacheUpdate(t) == threads[t].pc \in {"oldest", "del", "insert"}

Return(t, cases) ==
    threads' = [threads EXCEPT ![t] = [IdleThread EXCEPT !.returned = cases]]

ThreadFrame ==
    UNCHANGED <<rag_class, vector_db, collection, index, llm, similarity_threshold,
                last, watch, obs, embedding_cache, fmt>>

\* a caller enters retrieve_relevant_cases(query, top_k) and builds cache_key
t_call(t, q, k) ==
    /\ threads[t].pc = "idle"
    /\ threads' = [threads EXCEPT ![t] =
           [IdleThread EXCEPT !.pc = "check", !.query = q, !.top_k = k,
                              !.key = CacheKey(q, k)]]
    /\ UNCHANGED query_cache
    /\ ThreadFrame

\* if cache_key in self.query_cache
t_check(t) ==
    /\ threads[t].pc = "check"
    /\ threads' = [threads EXCEPT ![t].pc =
           IF threads[t].key \in CacheKeys(query_cache) THEN "get" ELSE "search"]
    /\ UNCHANGED query_cache
    /\ ThreadFrame

\* return self.query_cache[cache_key]: KeyError when the entry is gone
t_get(t) ==
    /\ threads[t].pc = "get"
    /\ IF threads[t].key \in CacheKeys(query_cache)
       THEN Return(t, CacheGet(query_cache, threads[t].key))
       ELSE Return(t, <<>>)
    /\ UNCHANGED query_cache
    /\ ThreadFrame

\* the index search, the filter loop, the sort and the slice
t_search(t, idx) ==
    /\ threads[t].pc = "search"
    /\ LET sr == search_similar_cases(threads[t].query, threads[t].top_k * 2,
                                      collection, idx)
       IN  IF sr.exc
           THEN Return(t, <<>>)
           ELSE threads' = [threads EXCEPT
                    ![t].pc = "len",
                    ![t].cases = sort_and_limit(
                        filter_by_threshold(sr.rows, similarity_threshold),
                        threads[t].top_k)]
    /\ UNCHANGED query_cache
    /\ ThreadFrame

\* if len(self.query_cache) >= self.max_cache_size
t_len(t) ==
    /\ threads[t].pc = "len"
    /\ threads' = [threads EXCEPT ![t].pc =
           IF Len(query_cache) >= max_cache_size THEN "oldest" ELSE "insert"]
    /\ UNCHANGED query_cache
    /\ ThreadFrame

\* oldest_key = next(iter(self.query_cache)): StopIteration when empty
t_oldest(t) ==
    /\ threads[t].pc = "oldest"
    /\ IF query_cache = <<>>
       THEN Return(t, <<>>)
       ELSE threads' = [threads EXCEPT ![t].pc = "del",
                                       ![t].oldest = query_cache[1].key]
    /\ UNCHANGED query_cache
    /\ ThreadFrame

\* del self.query_cache[oldest_key]: KeyError when the entry is gone
t_del(t) ==
    /\ threads[t].pc = "del"
    /\ IF threads[t].oldest \in CacheKeys(query_cache)
       THEN /\ query_cache' = SelectSeq(query_cache,
                                  LAMBDA e : e.key # threads[t].oldest)
            /\ threads' = [threads EXCEPT ![t].pc = "insert"]
       ELSE /\ Return(t, <<>>)
            /\ UNCHANGED query_cache
    /\ ThreadFrame

\* self.query_cache[cache_key] = relevant_cases; return relevant_cases
t_insert(t) ==
    /\ threads[t].pc = "insert"
    /\ query_cache' = DictSet(query_cache, threads[t].key, threads[t].cases)
    /\ Return(t, threads[t].cases)
    /\ ThreadFrame

NextThreads ==
    \E t \in Threads :
        \/ \E rq \in ThreadRequests : t_call(t, rq[1], rq[2])
        \/ t_check(t)
        \/ t_get(t)
        \/ \E idx \in IndexOutcomes : t_search(t, idx)
        \/ t_len(t)
        \/ t_oldest(t)
        \/ t_del(t)
        \/ t_insert(t)

SpecThreads == InitTune /\ [][NextThreads]_vars

----------------------------------------------------------------------------
(* Claims *)

IsBlank(q) == \A i \in 1..Len(q) : q[i].t \in Whitespace

LastK == EffectiveTopK(last.top_k)

LastIsAnswer == last.op = "answer_legal_query"

\* the rows the index holds for the last call's search
LastRows == ChromaQuery(last.query, collection, LastK * 2)

\* the rows of the last call's search whose relevance reaches the threshold
LastPassing ==
    {i \in 1..Len(LastRows) : 10 - LastRows[i].distance >= similarity_threshold}

\* C1 as stated: when answer_legal_query(q, k) is called twice with fewer
\* than max_cache_size other keys inserted in between, the second call
\* returns the sources of the first and the index is queried exactly once
\* for (q, k) over the two calls.
C1_CacheHitAsStated ==
    (obs.phase = 2 /\ obs.inserted < max_cache_size)
        => (obs.second_sources = obs.first_sources /\ obs.searches = 1)

\* C1 as amended: the same, when the index search of the first call did
\* not raise.
C1_CacheHit ==
    (obs.phase = 2 /\ obs.inserted < max_cache_size /\ ~obs.first_raised)
        => (obs.second_sources = obs.first_sources /\ obs.searches = 1)

\* a second call served from the cache after max_cache_size - 1 other keys
\* were inserted
C1_Witness ==
    /\ obs.phase = 2
    /\ obs.inserted = max_cache_size - 1
    /\ ~obs.first_raised
    /\ obs.first_sources # <<>>
    /\ last.cache_hit

\* C2: when the index search raises during retrieval, answer_legal_query
\* raises to its caller and returns no result.
C2_RetrievalErrorRaises ==
    (LastIsAnswer /\ last.search_raised) => last.raised

\* C3: a retrieval whose index search raises leaves query_cache as it was
\* (no entry created for the key, none evicted), and an identical call
\* right after it queries the index again.
C3_CacheUnchangedOnError ==
    [][/\ (LastIsAnswer' /\ last'.search_raised)
            => /\ query_cache' = query_cache
               /\ CacheKey(last'.query, LastK') \notin CacheKeys(query_cache')
       /\ (/\ LastIsAnswer /\ last.search_raised
           /\ LastIsAnswer' /\ last'.query = last.query
           /\ last'.top_k = last.top_k)
            => last'.searched = 1]_vars

\* the search raised while the cache was full
C3_Witness ==
    /\ LastIsAnswer
    /\ last.search_raised
    /\ Len(query_cache) = max_cache_size

\* C4: when the model provider raises and at least one case was retrieved,
\* answer_legal_query returns without raising an answer that is non-empty
\* and contains the disclaimer and the formatted context.
C4_GenerationFallback ==
    (LastIsAnswer /\ last.provider = "raise")
        => /\ ~last.raised
           /\ last.sources # <<>>
           /\ last.answer # <<>>
           /\ Contains(last.answer, Disclaimer)
           /\ Contains(last.answer,
                       format_optimized_context(last.sources, max_context_length))

\* the provider raised on a call that had retrieved cases
C4_Witness ==
    /\ LastIsAnswer
    /\ last.provider = "raise"
    /\ llm \in {"openai", "gemini"}
    /\ Len(last.sources) >= 2

\* C5: an answer produced by the fallback template is flagged
\* llm_used = 'fallback', and llm_used names a model only when that model
\* produced the answer.
C5_FallbackFlagged ==
    /\ (LastIsAnswer /\ last.generator = "fallback")
            => (last.has_info /\ last.llm_used = "fallback")
    /\ (LastIsAnswer /\ last.llm_used \in {"openai", "gemini"})
            => last.generator = "model"

\* C6: when the index is empty or none of its candidates reaches the
\* similarity threshold, answer_legal_query returns, without raising, empty
\* sources and the non-empty guidance text; so does LegalRAG on an empty
\* index.
C6_NoEvidenceGuidance ==
    /\ (/\ LastIsAnswer /\ last.searched = 1 /\ ~last.search_raised
        /\ LastPassing = {})
            => /\ ~last.raised
               /\ last.sources = <<>>
               /\ last.answer = GuidanceAnswer
               /\ last.answer # <<>>
    /\ (/\ last.op = "LegalRAG.answer_legal_query" /\ last.searched = 1
        /\ ~last.search_raised /\ collection = {})
            => /\ ~last.raised
               /\ last.sources = <<>>
               /\ last.answer = GuidanceAnswer
               /\ last.answer # <<>>

\* a valid request searched a non-empty index and no candidate reached the
\* threshold
C6_Witness ==
    /\ LastIsAnswer
    /\ last.searched = 1 /\ ~last.search_raised
    /\ ~IsBlank(last.query) /\ LastK >= 1
    /\ LastRows # <<>>
    /\ LastPassing = {}

\* C7: an empty or whitespace-only query is rejected with an error, and
\* neither the index nor the generator is called.
C7_BlankQueryRejected ==
    (LastIsAnswer /\ IsBlank(last.query))
        => (last.raised /\ last.searched = 0 /\ last.gen_calls = 0)

\* C8: a call with top_k <= 0 is rejected with an error; it never returns
\* a result.
C8_NonPositiveTopKRejected ==
    (LastIsAnswer /\ LastK <= 0) => last.raised

\* C9: for a non-empty query and top_k >= 1 the sources are ordered by
\* non-increasing relevance and number at most top_k, also when served from
\* the cache; a fresh retrieval returns min(top_k, number passing) distinct
\* index hits that pass the threshold, and no passing hit left out is more
\* relevant than one returned.
C9_TopKByRelevance ==
    (LastIsAnswer /\ ~IsBlank(last.query) /\ LastK >= 1)
        => /\ ~last.raised
           /\ Len(last.sources) <= LastK
           /\ \A i, j \in 1..Len(last.sources) :
                  i < j => last.sources[i].relevance_score
                               >= last.sources[j].relevance_score
           /\ (last.searched = 1 /\ ~last.search_raised)
                => /\ Len(last.sources)
                        = IF Cardinality(LastPassing) < LastK
                          THEN Cardinality(LastPassing) ELSE LastK
                   /\ \A i \in 1..Len(last.sources) :
                          \E p \in LastPassing :
                              /\ LastRows[p].metadata.title = last.sources[i].title
                              /\ 10 - LastRows[p].distance
                                    = last.sources[i].relevance_score
                   /\ \A i, j \in 1..Len(last.sources) :
                          i # j => last.sources[i].title # last.sources[j].title
                   /\ \A p \in LastPassing :
                          \/ \E i \in 1..Len(last.sources) :
                                 last.sources[i].title = LastRows[p].metadata.title
                          \/ \A i \in 1..Len(last.sources) :
                                 last.sources[i].relevance_score
                                     >= 10 - LastRows[p].distance

\* a fresh retrieval in which more hits passed the threshold than top_k
C9_Witness ==
    /\ LastIsAnswer /\ ~IsBlank(last.query) /\ LastK >= 1
    /\ last.searched = 1 /\ ~last.search_raised
    /\ Cardinality(LastPassing) > LastK
    /\ Len(last.sources) = LastK

\* C10: every relevance_score of every returned case lies in [0, 1], in
\* OptimizedLegalRAG and in LegalRAG.
C10_RelevanceInUnitInterval ==
    \A i \in 1..Len(last.sources) :
        /\ last.sources[i].relevance_score >= 0
        /\ last.sources[i].relevance_score <= 10

\* C11: every case returned by a retrieve_relevant_cases call has a
\* relevance at or above the similarity_threshold in force during that call,
\* whatever calls and threshold changes came before.
C11_ThresholdFilter ==
    \A i \in 1..Len(last.calls) :
        \A j \in 1..Len(last.calls[i].cases) :
            last.calls[i].cases[j].relevance_score >= last.calls[i].thr

\* C12: after any sequence of sequential calls with arbitrary
\* (query, top_k) pairs query_cache never holds more than max_cache_size
\* entries, and neither does embedding_cache under _cache_embedding.
C12_BoundedCaches ==
    /\ Len(query_cache) <= max_cache_size
    /\ Len(embedding_cache) <= max_cache_size

\* a miss on a full query_cache evicted its oldest entry, and
\* embedding_cache is full as well
C12_Witness ==
    /\ last.evicted
    /\ Len(query_cache) = max_cache_size
    /\ Len(embedding_cache) = max_cache_size
    /\ embedding_cache[1].key # text_hash(QBlank)
    /\ \E i \in 1..Len(embedding_cache) :
           embedding_cache[i].key = text_hash(QBlank)

\* C13: under concurrent callers the evict-then-insert sequence on
\* query_cache is serialized: no two callers are inside it at once, and in
\* every interleaving query_cache holds at most max_cache_size entries.
C13_SerializedCacheUpdate ==
    /\ \A t, u \in Threads : (InCacheUpdate(t) /\ InCacheUpdate(u)) => t = u
    /\ Len(query_cache) <= max_cache_size

\* the requests a user makes: the entry points of both orchestrators and
\* the chat endpoint
LastIsRequest ==
    last.op \in {"answer_legal_query", "LegalRAG.answer_legal_query", "chat"}

\* C14: the generator is attempted at most 3 times per request; an attempt
\* that raises is followed by the next one, so a provider that keeps raising
\* is called 3 times and the request then completes with the fallback
\* template; the response is never empty.
C14_BoundedGenerationRetry ==
    (LastIsRequest /\ ~last.raised)
        => /\ last.gen_calls <= 3
           /\ last.provider = "raise"
                => /\ last.gen_calls = 3
                   /\ Contains(last.answer, Disclaimer)
           /\ last.answer # <<>>

\* C15: within one request the index is searched at most once; a search
\* that raised is not followed by another search for that request.
C15_RetrievalNotRetried ==
    LastIsRequest
        => /\ last.searched <= 1
           /\ last.search_raised => last.attempts <= 1

\* a chat request whose index search raised
C15_Witness ==
    /\ last.op = "chat"
    /\ last.search_raised
    /\ last.searched = 1
    /\ last.attempts = 1
    /\ last.type = "rag"

\* C18: for a non-empty query and top_k >= 1 with a reachable index,
\* answer_legal_query returns a result with an answer and sources whether
\* the model is unconfigured, raises or succeeds; an exception reaches the
\* caller only for an invalid request or an unreachable index.
C18_AlwaysAnswer ==
    /\ (/\ LastIsAnswer /\ ~IsBlank(last.query) /\ LastK >= 1
        /\ ~last.search_raised)
            => /\ ~last.raised
               /\ last.provider # "empty" => last.answer # <<>>
               /\ last.sources = last.retrieved
               /\ last.sources = <<>> => last.answer = GuidanceAnswer
    /\ (LastIsAnswer /\ last.raised)
            => (IsBlank(last.query) \/ LastK <= 0 \/ last.search_raised)

\* an unconfigured model, and cases were retrieved
C18_Witness ==
    /\ LastIsAnswer /\ ~IsBlank(last.query) /\ LastK >= 1
    /\ ~last.search_raised
    /\ llm = "fallback"
    /\ last.generator = "fallback"
    /\ last.sources # <<>>

\* C19: with the same indexed cases and the same query,
\* LegalRAG.retrieve_relevant_cases over the cloud backend returns a
\* non-empty list whenever it does over the local backend, with the same
\* relevance for the same case.
C19_BackendsInterchangeable ==
    (last.op = "LegalRAG.answer_legal_query" /\ vector_db = "PineconeVectorDB")
        => LET local == LegalRAG_retrieve_relevant_cases(last.query, LastK,
                            "LegalVectorDatabase", collection, "ok").cases
               cloud == LegalRAG_retrieve_relevant_cases(last.query, LastK,
                            "PineconeVectorDB", collection, "ok").cases
           IN  local # <<>>
                   => /\ cloud # <<>>
                      /\ \A i \in 1..Len(local), j \in 1..Len(cloud) :
                             local[i].title = cloud[j].title
                                 => local[i].relevance_score
                                        = cloud[j].relevance_score

\* C20: when the model returns an empty response without raising, the
\* fallback template is returned instead; the answer of every result
\* answer_legal_query returns is non-empty.
C20_EmptyResponseFallsBack ==
    (LastIsAnswer /\ ~last.raised)
        => /\ last.answer # <<>>
           /\ last.provider = "empty" => last.generator = "fallback"

\* the header followed by the stanzas of the first n cases
RECURSIVE HeaderAndStanzas(_, _)
HeaderAndStanzas(cases, n) ==
    IF n = 0 THEN ContextHeader
    ELSE HeaderAndStanzas(cases, n - 1) \o case_summary(n, cases[n])

\* the length of the longest stanza of a non-empty case list
LongestStanza(cases) ==
    LET lens == {Len(case_summary(i, cases[i])) : i \in 1..Len(cases)}
    IN  CHOOSE m \in lens : \A l \in lens : l <= m

\* C16: for a non-empty ranked case list and any max_length >= 0 the string
\* format_optimized_context returns is at most max_length + one stanza +
\* the marker long; it is the header and the stanzas of the first n cases,
\* n being the most that fit within max_length, followed, when n is less
\* than the number of cases, by a marker that states exactly the number of
\* cases left out, and by nothing when all cases fit.
C16_Truncation ==
    (fmt.op = "format_optimized_context" /\ fmt.cases # <<>>)
        => /\ Len(fmt.first) <= fmt.max_length + LongestStanza(fmt.cases)
                                    + Len(TruncationMarker(0))
           /\ \E n \in 0..Len(fmt.cases) :
                  /\ n >= 1 => Len(HeaderAndStanzas(fmt.cases, n))
                                   <= fmt.max_length
                  /\ n < Len(fmt.cases)
                       => LET body == HeaderAndStanzas(fmt.cases, n)
                              marker == (Len(body) + 1)..Len(fmt.first)
                          IN  /\ Len(HeaderAndStanzas(fmt.cases, n + 1))
                                    > fmt.max_length
                              /\ Len(fmt.first) > Len(body)
                              /\ SubSeq(fmt.first, 1, Len(body)) = body
                              /\ \E j \in marker : fmt.first[j].t = "#"
                              /\ \A j \in marker :
                                     fmt.first[j].t = "#"
                                         => fmt.first[j].n = Len(fmt.cases) - n
                  /\ n = Len(fmt.cases)
                       => fmt.first = HeaderAndStanzas(fmt.cases, n)

\* the first of three cases fits and the other two are left out
C16_Witness ==
    /\ fmt.op = "format_optimized_context"
    /\ Len(fmt.cases) = 3
    /\ Len(fmt.first) > Len(HeaderAndStanzas(fmt.cases, 1))
    /\ SubSeq(fmt.first, 1, Len(HeaderAndStanzas(fmt.cases, 1)))
           = HeaderAndStanzas(fmt.cases, 1)
    /\ Len(HeaderAndStanzas(fmt.cases, 2)) > fmt.max_length

LastAllRows == ChromaQuery(last.query, collection, Cardinality(CaseIds))

\* C22: for a backend reporting cosine distance d in [0, 2] the
\* relevance_score computed by retrieve_relevant_cases is
\* clamp((2 - d) / 2, 0, 1) (a backend reporting a cosine score s gives
\* relevance s).  The index of the model reports distances; both sides are
\* doubled to stay in whole tenths.
C22_RelevanceNormalised ==
    (/\ last.op \in {"answer_legal_query", "LegalRAG.answer_legal_query"}
     /\ last.searched = 1 /\ ~last.search_raised)
        => \A i \in 1..Len(last.sources) :
               \E p \in 1..Len(LastAllRows) :
                   LET d == LastAllRows[p].distance
                       twice == IF 20 - d < 0 THEN 0
                                ELSE IF 20 - d > 20 THEN 20 ELSE 20 - d
                   IN  /\ Take(LastAllRows[p].metadata.title, 100)
                             = last.sources[i].title
                       /\ d \in 0..20
                       /\ 2 * last.sources[i].relevance_score = twice

\* C30: in LegalRAG, when no model is configured or the model call raises
\* and at least one case was retrieved, answer_legal_query returns the
\* template answer, which includes the formatted context and ends with the
\* legal disclaimer.
C30_LegalRAGTemplateFallback ==
    (/\ last.op = "LegalRAG.answer_legal_query"
     /\ last.sources # <<>>
     /\ (llm \notin {"openai", "gemini"} \/ last.provider = "raise"))
        => /\ Contains(last.answer, LegalRAG_format_context(last.sources))
           /\ Len(last.answer) >= Len(Disclaimer)
           /\ SubSeq(last.answer, Len(last.answer) - Len(Disclaimer) + 1,
                     Len(last.answer)) = Disclaimer

\* C25: in every answer_legal_query call the generator (model or fallback
\* template) is invoked exactly once when the retrieved or cached case list
\* is non-empty and not at all when it is empty; it is invoked on the
\* context formatted from that list; a cache hit skips the index search and
\* still goes on to the generator.
C25_CallStateMachine ==
    (LastIsAnswer /\ ~last.raised)
        => LET cases == last.calls[1].cases IN
           /\ last.gen_calls = IF cases # <<>> THEN 1 ELSE 0
           /\ cases # <<>>
                => /\ last.generator \in {"model", "fallback"}
                   /\ last.sources = cases
                   /\ last.context
                        = format_optimized_context(cases, max_context_length)
           /\ cases = <<>>
                => /\ last.generator = "none"
                   /\ last.context = <<>>
                   /\ last.answer = GuidanceAnswer
           /\ last.cache_hit => last.searched = 0
           /\ ~last.cache_hit => last.searched = 1

\* a cache hit on a non-empty list went on to a model that raised
C25_Witness ==
    /\ LastIsAnswer
    /\ last.cache_hit
    /\ last.searched = 0
    /\ last.calls[1].cases # <<>>
    /\ last.gen_calls = 1
    /\ last.provider = "raise"

\* C23: when a new key is inserted into a full query_cache exactly one
\* entry is evicted, the one inserted earliest among those present (entries
\* are only ever appended, so the first in order); the other entries keep
\* their order and the new one comes last; a cache hit leaves the contents
\* and the order of query_cache unchanged.
C23_FifoEviction ==
    [][/\ (LastIsAnswer' /\ last'.cache_hit) => query_cache' = query_cache
       /\ query_cache' # query_cache
            => LET key == CacheKey(last'.query, LastK')
                   n == Len(query_cache)
               IN  /\ LastIsAnswer' /\ ~last'.cache_hit
                   /\ key \notin CacheKeys(query_cache)
                   /\ query_cache' # <<>>
                   /\ query_cache'[Len(query_cache')].key = key
                   /\ IF n >= max_cache_size
                      THEN /\ Len(query_cache') = n
                           /\ SubSeq(query_cache', 1, n - 1) = Tail(query_cache)
                           /\ query_cache[1].key \notin CacheKeys(query_cache')
                      ELSE /\ Len(query_cache') = n + 1
                           /\ SubSeq(query_cache', 1, n) = query_cache]_vars

\* a miss on a full cache evicted the oldest entry and stored its own
\* non-empty list last
C23_Witness ==
    /\ LastIsAnswer
    /\ last.evicted
    /\ last.sources # <<>>
    /\ Len(query_cache) = max_cache_size
    /\ query_cache[Len(query_cache)].key = CacheKey(last.query, LastK)
    /\ query_cache[Len(query_cache)].value = last.sources

\* what a search of the index as it is now, filtered with the threshold as
\* it is now, returns for the last call's query and top_k
LastFresh ==
    sort_and_limit(filter_by_threshold(LastRows, similarity_threshold), LastK)

\* C24: a query_cache entry is removed only by capacity eviction: adding
\* cases to the index leaves query_cache unchanged, and through any call,
\* a threshold change included, an entry stays as it is unless the cache is
\* full afterwards; a later call with a cached (query, top_k) returns the
\* list stored before the change.
C24_NoInvalidation ==
    [][/\ (index' # index \/ collection' # collection)
            => query_cache' = query_cache
       /\ \A i \in 1..Len(query_cache) :
              \/ \E j \in 1..Len(query_cache') : query_cache'[j] = query_cache[i]
              \/ /\ Len(query_cache') >= max_cache_size
                 /\ last'.op \in {"answer_legal_query",
                                  "optimize_similarity_threshold"}
       /\ (LastIsAnswer' /\ last'.cache_hit)
            => /\ CacheKey(last'.query, LastK') \in CacheKeys(query_cache)
               /\ last'.calls[1].cases
                    = CacheGet(query_cache, CacheKey(last'.query, LastK'))
               /\ query_cache' = query_cache]_vars

\* a call served a non-empty list from the cache that a search of the
\* index as it is now would not return
C24_Witness ==
    /\ LastIsAnswer
    /\ last.cache_hit
    /\ last.sources # <<>>
    /\ last.sources # LastFresh
    /\ Len(LastFresh) > Len(last.sources)

\* C26: a retrieval that yields no case above the threshold creates no
\* cache entry, so that once qualifying cases are indexed a repeat of the
\* query searches the index again and returns them.
C26_EmptyNotCached ==
    /\ (/\ LastIsAnswer /\ last.searched = 1 /\ ~last.search_raised
        /\ last.calls[1].cases = <<>>)
            => CacheKey(last.query, LastK) \notin CacheKeys(query_cache)
    /\ (/\ LastIsAnswer /\ ~last.search_raised /\ LastK >= 1
        /\ LastPassing # {})
            => last.sources # <<>>

\* C29: the ids assigned by add_cases (and by add_documents when ids are
\* omitted) are unique across calls: a call overwrites no case the index
\* holds, every case it was given is in the index afterwards, each under an
\* id of its own, and the call does not fail.
C29_IngestionNeverOverwrites ==
    [][(last'.op \in {"add_cases", "add_documents"} /\ last'.type # "False")
         => /\ ~last'.raised
            /\ \A n \in DOMAIN index :
                   n \in DOMAIN index' /\ index'[n] = index[n]
            /\ \A k \in 1..Len(last'.added) :
                   \E n \in DOMAIN index' \ DOMAIN index :
                       index'[n] = last'.added[k]
            /\ Cardinality(DOMAIN index')
                 = Cardinality(DOMAIN index) + Len(last'.added)]_vars

\* C27: in every interleaving of concurrent retrieve_relevant_cases calls a
\* call whose index search produced at least one case above the threshold
\* returns those cases; the eviction step never fails and turns a
\* successful search into an empty result.
C27_ConcurrentCallersSafe ==
    [][\A t \in Threads :
          (/\ threads[t].pc \in {"len", "oldest", "del", "insert"}
           /\ threads[t].cases # <<>>
           /\ threads'[t].pc = "idle")
              => threads'[t].returned = threads[t].cases]_vars

RECURSIVE SumLens(_, _, _)
SumLens(tests, thr, i) ==
    IF i > Len(tests) THEN 0
    ELSE Len(FreshCases(tests[i], thr)) + SumLens(tests, thr, i + 1)

\* the score of the candidate thr on results filtered with thr
FreshScore(tests, thr) ==
    LET valid == Cardinality({i \in 1..Len(tests) :
                                 FreshCases(tests[i], thr) # <<>>})
    IN  IF valid = 0 THEN 0 ELSE score_of(SumLens(tests, thr, 1), valid)

\* the first candidate with the highest score, or the threshold before the
\* call when no candidate scores above 0
FreshBest(tests, before) ==
    IF \A j \in 1..Len(Thresholds) : FreshScore(tests, Thresholds[j]) = 0
    THEN before
    ELSE Thresholds[CHOOSE j \in 1..Len(Thresholds) :
             \A k \in 1..Len(Thresholds) :
                 /\ FreshScore(tests, Thresholds[j])
                        >= FreshScore(tests, Thresholds[k])
                 /\ k < j => FreshScore(tests, Thresholds[k])
                                < FreshScore(tests, Thresholds[j])]

\* the test queries of the last optimize_similarity_threshold call: the
\* queries of its first round
LastTests ==
    [i \in 1..(Len(last.calls) \div Len(Thresholds)) |-> last.calls[i].query]

\* C28: optimize_similarity_threshold scores each candidate threshold on
\* retrieval results filtered with that threshold, returns the first
\* candidate with the strictly highest score (the original threshold if no
\* candidate scores above 0), and leaves similarity_threshold equal to the
\* returned value.
C28_ThresholdTuning ==
    (/\ last.op = "optimize_similarity_threshold"
     /\ \A i \in 1..Len(last.calls) : ~last.calls[i].raised)
        => /\ \A i \in 1..Len(last.calls) :
                  last.calls[i].cases
                      = FreshCases(last.calls[i].query, last.calls[i].thr)
           /\ last.returned = FreshBest(LastTests, last.before)
           /\ similarity_threshold = last.returned

\* C21: after __init__ returns, OptimizedLegalRAG.llm is one of 'openai',
\* 'gemini', 'fallback', never None, and no later call (retrieval,
\* formatting, generation, answer_legal_query, batch_test_performance,
\* optimize_similarity_threshold, the model raising included) changes it.
C21_StrategyFixed ==
    /\ [](llm \in {"openai", "gemini", "fallback"})
    /\ [][llm' = llm]_vars

\* the configured model raised during a batch test and the strategy is
\* still the model
C21_Witness ==
    /\ last.op = "batch_test_performance"
    /\ last.provider = "raise"
    /\ last.gen_calls >= 2
    /\ llm = "gemini"

====
